---- MODULE Spec2Model ----
(***************************************************************************)
(* Model of package up (github.com/jonathonwebb/x/up): the Migrator's Run  *)
(* and Revert over a Store, with the Sqlite3Store as the store; and of      *)
(* package retry (github.com/jonathonwebb/x/retry).                        *)
(*                                                                         *)
(* Every Store call is one atomic step of the calling invocation (it is    *)
(* one SQL statement or one transaction).  Local computation of the        *)
(* Migrator between two Store calls is folded into the step of the         *)
(* preceding Store call, since it touches no shared state.                 *)
(***************************************************************************)
EXTENDS Integers, Sequences, FiniteSets, TLC

\* ---------------------------------------------------------------- bounds
MaxVersion == 3
MaxSources == 3
\* The largest MaxTries of the options retry is called with.
TriesBound == 3

\* ------------------------------------------------------- program constants
RunTargetLatest == -1
RevertTargetInitial == 0

\* The concurrent callers of Run and Revert on one Migrator.
Procs == {1, 2}
Versions == 1..MaxVersion
\* Targets of the calls: the latest sentinel, the initial sentinel, and the
\* versions, which for the shorter Source lists are not all Source versions.
Targets == RunTargetLatest..MaxVersion
TableNames == {"schema_lock", "schema_migrations"}

VARIABLES
  Sources,            \* Migrator.Sources: sequence of Migration records
  HoldLockOnFailure,  \* Migrator.HoldLockOnFailure
  tables,             \* tables that exist in the database
  schema_lock,        \* ids of the rows of table schema_lock
  schema_migrations,  \* version_ids of the rows of table schema_migrations
  frame,              \* per invocation: the locals of Run/Revert and its position
  returned,           \* history: the latest successful calls of a lone caller
  called,             \* history: the latest calls made on the Store directly
  failed,             \* history: the call of a lone caller that failed last
  options,            \* retry: the RetryOptions after the opts were applied
  ctx,                \* retry: ctx.Err(), "nil" until the context is cancelled
  loop,               \* retry: the locals of retry and its position
  events              \* history: the invocations of fn and the cancellation

vars == <<Sources, HoldLockOnFailure, tables, schema_lock, schema_migrations,
          frame, returned, called, failed, options, ctx, loop, events>>
config == <<Sources, HoldLockOnFailure>>
store == <<tables, schema_lock, schema_migrations>>
\* What no step of the Migrator and no method of the Store touches.
retrying == <<options, ctx, loop, events>>
aside == <<failed, retrying>>

\* ------------------------------------------------------------ small helpers
Max(S) == CHOOSE x \in S : \A y \in S : y <= x

VersionsOf(srcs) == [k \in 1..Len(srcs) |-> srcs[k].Version]

VersionSet(srcs) == {srcs[k].Version : k \in 1..Len(srcs)}

Migration(v, run, rev) == [Version |-> v, RunFunc |-> run, RevertFunc |-> rev]

LogEntry(op, v, res) == [op |-> op, v |-> v, res |-> res]

\* ------------------------------------------------------------ Sqlite3Store
\* Each method is the set of outcomes it can have in the given database
\* state: the result the caller sees and the table contents afterwards.
\* "err" is a failure of the SQL statement (I/O, cancelled context, missing
\* table): the statement has no effect.

\* Variant: CREATE TABLE without IF NOT EXISTS, which fails over a table
\* that is there.
Sqlite3Store_Init_Create(tbls) ==
  {[res |-> "err", tables |-> tbls]} \cup
  (IF tbls \cap TableNames # {} THEN {}
   ELSE {[res |-> "ok", tables |-> tbls \cup TableNames]})

\* CREATE TABLE IF NOT EXISTS for both tables, in one transaction.
Sqlite3Store_Init(tbls) ==
  {[res |-> "ok", tables |-> tbls \cup TableNames],
   [res |-> "err", tables |-> tbls]}

\* Variant: INSERT OR IGNORE, which succeeds over an existing row.
Sqlite3Store_Lock_OrIgnore(tbls, lockRows) ==
  {[res |-> "err", rows |-> lockRows]} \cup
  (IF "schema_lock" \notin tbls THEN {}
   ELSE {[res |-> "ok", rows |-> lockRows \cup {1}]})

\* INSERT INTO schema_lock (id) VALUES (1); a constraint violation is ErrLocked.
Sqlite3Store_Lock(tbls, lockRows) ==
  {[res |-> "err", rows |-> lockRows]} \cup
  (IF "schema_lock" \notin tbls THEN {}
   ELSE IF 1 \in lockRows THEN {[res |-> "ErrLocked", rows |-> lockRows]}
   ELSE {[res |-> "ok", rows |-> lockRows \cup {1}]})

\* Variant: the DELETE matches no row.
Sqlite3Store_Release_Kept(tbls, lockRows) ==
  {[res |-> "err", rows |-> lockRows]} \cup
  (IF "schema_lock" \notin tbls THEN {}
   ELSE {[res |-> "ok", rows |-> lockRows]})

\* DELETE FROM schema_lock WHERE id = 1
Sqlite3Store_Release(tbls, lockRows) ==
  {[res |-> "err", rows |-> lockRows]} \cup
  (IF "schema_lock" \notin tbls THEN {}
   ELSE {[res |-> "ok", rows |-> lockRows \ {1}]})

\* Variant: no row is reported as version 0 without an error.
Sqlite3Store_Version_Zero(tbls, migRows) ==
  {[res |-> "err", v |-> 0]} \cup
  (IF "schema_migrations" \notin tbls THEN {}
   ELSE IF migRows = {} THEN {[res |-> "ok", v |-> 0]}
   ELSE {[res |-> "ok", v |-> Max(migRows)]})

\* SELECT version_id ... ORDER BY version_id DESC LIMIT 1
Sqlite3Store_Version(tbls, migRows) ==
  {[res |-> "err", v |-> 0]} \cup
  (IF "schema_migrations" \notin tbls THEN {}
   ELSE IF migRows = {} THEN {[res |-> "ErrInitialVersion", v |-> 0]}
   ELSE {[res |-> "ok", v |-> Max(migRows)]})

\* Variant: the row is written although the statement reports an error.
Sqlite3Store_Insert_Written(tbls, migRows, v) ==
  IF "schema_migrations" \notin tbls \/ v \in migRows
  THEN {[res |-> "err", rows |-> migRows]}
  ELSE {[res |-> "err", rows |-> migRows \cup {v}],
        [res |-> "ok", rows |-> migRows \cup {v}]}

\* Variant: INSERT OR REPLACE, which succeeds over a recorded version.
Sqlite3Store_Insert_OrReplace(tbls, migRows, v) ==
  {[res |-> "err", rows |-> migRows]} \cup
  (IF "schema_migrations" \notin tbls THEN {}
   ELSE {[res |-> "ok", rows |-> migRows \cup {v}]})

\* INSERT INTO schema_migrations (version_id) VALUES (?); version_id is UNIQUE.
Sqlite3Store_Insert(tbls, migRows, v) ==
  {[res |-> "err", rows |-> migRows]} \cup
  (IF "schema_migrations" \notin tbls \/ v \in migRows THEN {}
   ELSE {[res |-> "ok", rows |-> migRows \cup {v}]})

\* DELETE FROM schema_migrations WHERE version_id = ?
Sqlite3Store_Remove(tbls, migRows, v) ==
  {[res |-> "err", rows |-> migRows]} \cup
  (IF "schema_migrations" \notin tbls THEN {}
   ELSE {[res |-> "ok", rows |-> migRows \ {v}]})

\* --------------------------------------------------------------- Migration
\* Variant: an unset RunFunc counts as a function that does nothing.
Migration_Run_NilOk(m) == {"ok", "err"}

\* Migration.Run: an unset RunFunc is an error and nothing is invoked;
\* otherwise the function runs and its result (nil or an error) is returned.
Migration_Run(m) ==
  IF m.RunFunc = "nil" THEN {"nofunc"} ELSE {"ok", "err"}

Migration_Revert(m) ==
  IF m.RevertFunc = "nil" THEN {"nofunc"} ELSE {"ok", "err"}

\* ---------------------------------------------------------------- Migrator
\* Variant: only the sign of the versions is checked.
check_SignOnly(srcs) ==
  IF \E k \in 1..Len(srcs) : srcs[k].Version <= 0
  THEN "version must be > 0" ELSE "nil"

\* Variant: equal neighbours are let through.
check_NonDecreasing(srcs) ==
  IF \E k \in 1..Len(srcs) : srcs[k].Version <= 0 THEN "version must be > 0"
  ELSE IF \E k \in 2..Len(srcs) : srcs[k].Version < srcs[k - 1].Version
  THEN "migration order"
  ELSE "nil"

\* Migrator.check: "nil" or the first validation error met in list order.
RECURSIVE checkFrom(_, _, _, _)
checkFrom(srcs, k, prev, seen) ==
  IF k > Len(srcs) THEN "nil"
  ELSE LET v == srcs[k].Version IN
       IF v <= 0 THEN "version must be > 0"
       ELSE IF v < prev THEN "migration order"
       ELSE IF v \in seen THEN "duplicate migration version"
       ELSE checkFrom(srcs, k + 1, v, seen \cup {v})

check(srcs) == checkFrom(srcs, 1, 0, {})

\* migrationCmpFunc of Revert
migrationCmpFunc(s, t) ==
  IF s.Version < t THEN -1 ELSE IF s.Version > t THEN 1 ELSE 0

\* The halving loop of slices.BinarySearchFunc, with 1-based positions.
RECURSIVE bsearch(_, _, _, _)
bsearch(srcs, t, i, j) ==
  IF i < j
  THEN LET h == (i + j) \div 2 IN
       IF migrationCmpFunc(srcs[h + 1], t) < 0
       THEN bsearch(srcs, t, h + 1, j)
       ELSE bsearch(srcs, t, i, h)
  ELSE [idx |-> i + 1,
        ok |-> i < Len(srcs) /\ migrationCmpFunc(srcs[i + 1], t) = 0]

\* Variant: a position inside the list counts as a match.
BinarySearchFunc_InRange(srcs, t) ==
  LET r == bsearch(srcs, t, 0, Len(srcs)) IN [idx |-> r.idx, ok |-> r.idx <= Len(srcs)]

\* slices.BinarySearchFunc(srcs, t, migrationCmpFunc): the position where t
\* is or would be inserted, and whether it was found.
BinarySearchFunc(srcs, t) == bsearch(srcs, t, 0, Len(srcs))

\* Variant: the selection without the upper limit of the target.
ToApply_NoLimit(srcs, remoteVersion, to) ==
  LET sel(m) == m.Version > remoteVersion
  IN SelectSeq(srcs, sel)

\* Variant: the current version is selected again.
ToApply_FromCurrent(srcs, remoteVersion, to) ==
  LET sel(m) == m.Version >= remoteVersion
                /\ (to = RunTargetLatest \/ m.Version <= to)
  IN SelectSeq(srcs, sel)

\* Variant: the selection is walked from its highest version down.
ToApply_Reversed(srcs, remoteVersion, to) ==
  LET sel(m) == m.Version > remoteVersion
                /\ (to = RunTargetLatest \/ m.Version <= to)
      asc == SelectSeq(srcs, sel)
  IN [k \in 1..Len(asc) |-> asc[Len(asc) + 1 - k]]

\* Variant: the selection is not limited to the versions above the current one.
ToApply_UpToOnly(srcs, remoteVersion, to) ==
  LET sel(m) == to = RunTargetLatest \/ m.Version <= to
  IN SelectSeq(srcs, sel)

\* Variant: a target that is no Source version selects nothing.
ToApply_KnownTarget(srcs, remoteVersion, to) ==
  LET sel(m) == m.Version > remoteVersion
                /\ (to = RunTargetLatest
                    \/ (m.Version <= to /\ BinarySearchFunc(srcs, to).ok))
  IN SelectSeq(srcs, sel)

\* Run: the migrations queued for application (toApply).
ToApply(srcs, remoteVersion, to) ==
  LET sel(m) == m.Version > remoteVersion
                /\ (to = RunTargetLatest \/ m.Version <= to)
  IN SelectSeq(srcs, sel)

\* Run of src/up/migrator.go: the migrations its second loop over Sources
\* applies once toApply was found non-empty.
WalkLogW(srcs, remoteVersion, to) ==
  LET sel(m) == m.Version > remoteVersion /\ m.Version <= to
  IN SelectSeq(srcs, sel)

\* Variant: the position given by the search is used, not whether it matched.
TargetKnown_ByPosition(srcs, to) ==
  to = RevertTargetInitial \/ BinarySearchFunc(srcs, to).idx <= Len(srcs)

\* Revert: the check of the target before the Store is used.
TargetKnown(srcs, to) ==
  to = RevertTargetInitial \/ BinarySearchFunc(srcs, to).ok

\* Variant: HoldLockOnFailure is not looked at.
ReleaseDuringWalk_Always(hold) == TRUE

\* shouldRelease once the walk is about to start.
ReleaseDuringWalk(hold) == ~hold

\* ------------------------------------------------------------------ frames
IdleFrame ==
  [pc |-> "idle", op |-> "none", to |-> 0, remoteVersion |-> 0, n |-> 0,
   shouldRelease |-> FALSE, err |-> "nil", cause |-> "nil", rlErr |-> FALSE,
   walk |-> <<>>, i |-> 0, base |-> {}, log |-> <<>>]

Logged(f, e) == [f EXCEPT !.log = Append(f.log, e)]

\* A return statement after the deferred release was registered: the
\* deferred function calls Release next if shouldRelease, else the call is over.
Return(f, e) ==
  [f EXCEPT !.err = e, !.pc = IF f.shouldRelease THEN "release" ELSE "done"]

\* No invocation is at the instant of its return.  The return of a call is
\* local to the caller, so it is taken before any other step: the state with
\* pc = "done" is the state in which the call returns.
NoReturn == \A q \in Procs : frame[q].pc # "done"

\* The invocation holds the lock it acquired and has not yet returned.
InCritical(p) ==
  frame[p].pc \in {"version", "apply", "insert", "revert", "remove",
                   "reversion", "release"}

\* -------------------------------------------------------------------- retry
\* Durations are whole numbers of one unit.  maxDuration stands for
\* math.MaxInt64: it is above every delay that comes up.
maxDuration == 1000

\* Errors: nil, the error of ctx, and the error of the k-th invocation of fn,
\* which is k.
NilErr == 0
CtxErr == -1

RetryOptions(tries, delay, maxDelay, factor, jitter) ==
  [MaxTries |-> tries, Delay |-> delay, MaxDelay |-> maxDelay,
   BackoffFactor |-> factor, Jitter |-> jitter]

\* The options retry runs with: MaxTries from the opts, the other fields as
\* the defaults have them or as the opts set them.
OptionSets ==
  {RetryOptions(t, d, md, bf, j) :
     t \in 0..TriesBound, d \in {0, 2}, md \in {1, maxDuration},
     bf \in {1, 2}, j \in {0, 1}}

IdleLoop ==
  [pc |-> "idle", i |-> 0, lastErr |-> NilErr, currentDelay |-> 0,
   sleepDuration |-> 0, ret |-> NilErr]

\* What time.NewTimer is called with: min(currentDelay, MaxDelay), and with
\* Jitter a random part of jitterAmount added and half of it taken off.
SleepDurations(opt, currentDelay) ==
  LET base == IF currentDelay < opt.MaxDelay THEN currentDelay ELSE opt.MaxDelay
      jitterAmount == opt.Jitter * base
  IN IF opt.Jitter > 0
     THEN {base + r - (jitterAmount \div 2) :
             r \in 0..(IF jitterAmount > 0 THEN jitterAmount - 1 ELSE 0)}
     ELSE {base}

\* return zero, err
Returning(l, err) == [l EXCEPT !.pc = "done", !.ret = err]

\* The head of the for loop with i set: the next invocation, or after the
\* loop the return of lastErr.
LoopHead(l, opt) ==
  IF l.i <= opt.MaxTries THEN [l EXCEPT !.pc = "fn"]
  ELSE Returning(l, l.lastErr)

\* The timer case of the select: the backoff and i++.
Proceeding(l, opt) ==
  LoopHead([l EXCEPT !.currentDelay = @ * opt.BackoffFactor, !.i = @ + 1], opt)

\* The cases of the select that can proceed when it is entered: ctx.Done()
\* of a cancelled context, and timer.C of a timer that was set to no time.
Ready(l, c) ==
  (IF c # "nil" THEN {"ctx"} ELSE {}) \cup
  (IF l.sleepDuration <= 0 THEN {"timer"} ELSE {})

FnEvent(k, res) == [e |-> "fn", k |-> k, res |-> res, at |-> "fn"]

CancelEvent(at) == [e |-> "cancel", k |-> 0, res |-> NilErr, at |-> at]

\* ----------------------------------------------------------- initial states
\* Source lists: every list of at most MaxSources versions drawn from
\* 0..MaxVersion with both functions set, and every well-formed list of
\* MaxSources versions with one function of one migration left unset.
VersionLists == UNION {[1..k -> 0..MaxVersion] : k \in 0..MaxSources}

WellFormed(vl) ==
  \A k \in 1..Len(vl) : vl[k] > 0 /\ (k > 1 => vl[k - 1] < vl[k])

Complete(vl) == [k \in 1..Len(vl) |-> Migration(vl[k], "fn", "fn")]

FullLists == {vl \in VersionLists : WellFormed(vl) /\ Len(vl) = MaxSources}

SourceLists ==
  {Complete(vl) : vl \in VersionLists}
  \cup {[Complete(vl) EXCEPT ![k].RunFunc = "nil"] : vl \in FullLists, k \in 1..MaxSources}
  \cup {[Complete(vl) EXCEPT ![k].RevertFunc = "nil"] : vl \in FullLists, k \in 1..MaxSources}

\* Databases the store is opened on: a fresh or partly initialised one
\* without rows, or an initialised one that records one version.
InitialStores ==
  {[tables |-> t, applied |-> {}] : t \in SUBSET TableNames}
  \cup {[tables |-> TableNames, applied |-> {v}] : v \in Versions}

Init ==
  /\ Sources \in SourceLists
  /\ HoldLockOnFailure \in BOOLEAN
  /\ \E st \in InitialStores :
       /\ WellFormed(VersionsOf(Sources)) \/ st.applied \subseteq {1}
       /\ tables = st.tables
       /\ schema_migrations = st.applied
  /\ schema_lock = {}
  /\ frame = [p \in Procs |-> IdleFrame]
  /\ returned = <<>>
  /\ called = <<>>
  /\ failed = <<>>
  /\ options = RetryOptions(1, 0, maxDuration, 1, 0)
  /\ ctx = "nil"
  /\ loop = IdleLoop
  /\ events = <<>>

\* ----------------------------------------------------------------- actions
\* Variant: the release is deferred before the result of Lock is looked at.
Entered_DeferEarly(f, initOut, lockOut) ==
  LET f1 == Logged(f, LogEntry("Init", 0, initOut.res)) IN
  IF initOut.res # "ok" THEN [f1 EXCEPT !.pc = "done", !.err = "init"]
  ELSE LET f2 == [Logged(f1, LogEntry("Lock", 0, lockOut.res))
                    EXCEPT !.shouldRelease = TRUE] IN
       IF lockOut.res = "ok"
       THEN [f2 EXCEPT !.pc = "version"]
       ELSE Return(f2, IF lockOut.res = "ErrLocked" THEN "ErrLocked" ELSE "lock")

\* Run(ctx, to) / Revert(ctx, to) is called and runs up to its Lock: check(),
\* for Revert the search of the target, Store.Init, Store.Lock, and on
\* success the registration of the deferred release.  Init only creates
\* missing tables, which every invocation does before it uses them, so the
\* step of Init commutes with the steps of the other invocations and is
\* taken together with Lock.
Entered(f, initOut, lockOut) ==
  LET f1 == Logged(f, LogEntry("Init", 0, initOut.res)) IN
  IF initOut.res # "ok" THEN [f1 EXCEPT !.pc = "done", !.err = "init"]
  ELSE LET f2 == Logged(f1, LogEntry("Lock", 0, lockOut.res)) IN
       IF lockOut.res = "ok"
       THEN [f2 EXCEPT !.pc = "version", !.shouldRelease = TRUE]
       ELSE [f2 EXCEPT !.pc = "done",
                       !.err = IF lockOut.res = "ErrLocked" THEN "ErrLocked" ELSE "lock"]

Call(p, op, to) ==
  /\ NoReturn
  /\ frame[p].pc = "idle"
  /\ LET f0 == [IdleFrame EXCEPT !.op = op, !.to = to] IN
     IF check(Sources) # "nil"
     THEN /\ frame' = [frame EXCEPT ![p] =
                 [f0 EXCEPT !.pc = "done", !.err = "invalid sources",
                            !.cause = check(Sources)]]
          /\ UNCHANGED <<config, aside, returned, called, store>>
     ELSE IF op = "Revert" /\ ~TargetKnown(Sources, to)
     THEN /\ frame' = [frame EXCEPT ![p] =
                 [f0 EXCEPT !.pc = "done", !.err = "missing target version"]]
          /\ UNCHANGED <<config, aside, returned, called, store>>
     ELSE \E initOut \in Sqlite3Store_Init(tables) :
          \E lockOut \in Sqlite3Store_Lock(initOut.tables, schema_lock) :
            /\ tables' = initOut.tables
            /\ schema_lock' = IF initOut.res = "ok" THEN lockOut.rows ELSE schema_lock
            /\ frame' = [frame EXCEPT ![p] = Entered(f0, initOut, lockOut)]
            /\ UNCHANGED <<config, aside, returned, called, schema_migrations>>

\* Run after m.Store.Version(ctx): the selection of toApply, the empty case,
\* and shouldRelease for the walk.  walk is the list the walk ranges over.
RunSelect(f, out, walk) ==
  LET f1 == [Logged(f, LogEntry("Version", out.v, out.res))
               EXCEPT !.remoteVersion = out.v, !.base = schema_migrations] IN
  IF out.res = "err" THEN Return(f1, "version")
  ELSE IF Len(ToApply(Sources, out.v, f.to)) = 0 THEN Return(f1, "nil")
  ELSE LET f2 == [f1 EXCEPT !.shouldRelease = ReleaseDuringWalk(HoldLockOnFailure),
                            !.n = 0, !.walk = walk, !.i = 1] IN
       IF Len(walk) = 0
       THEN Return([f2 EXCEPT !.shouldRelease = TRUE], "nil")
       ELSE [f2 EXCEPT !.pc = "apply"]

\* Run walks toApply.
RunVersion(p) ==
  /\ NoReturn
  /\ frame[p].pc = "version" /\ frame[p].op = "Run"
  /\ \E out \in Sqlite3Store_Version(tables, schema_migrations) :
       frame' = [frame EXCEPT ![p] = RunSelect(@, out, ToApply(Sources, out.v, @.to))]
  /\ UNCHANGED <<config, aside, returned, called, store>>

\* The same step in src/up/migrator.go, which walks Sources a second time.
RunVersionLogW(p) ==
  /\ NoReturn
  /\ frame[p].pc = "version" /\ frame[p].op = "Run"
  /\ \E out \in Sqlite3Store_Version(tables, schema_migrations) :
       frame' = [frame EXCEPT ![p] = RunSelect(@, out, WalkLogW(Sources, out.v, @.to))]
  /\ UNCHANGED <<config, aside, returned, called, store>>

\* Variant: the walk of Run calls the revert function of the migration.
RunApplied_Reverting(f, m, r) ==
  IF r = "nofunc" THEN Return(f, "apply")
  ELSE LET f1 == Logged(f, LogEntry("RevertFunc", m.Version, r)) IN
       IF r = "ok" THEN [f1 EXCEPT !.pc = "insert"]
       ELSE Return(f1, "apply")

\* Variant: the error of the migration function is dropped.
RunApplied_ErrorDropped(f, m, r) ==
  IF r = "nofunc" THEN Return(f, "apply")
  ELSE [Logged(f, LogEntry("RunFunc", m.Version, r)) EXCEPT !.pc = "insert"]

\* The frame after migration.Run(ctx, m.Store.DB()) gave r for migration m.
RunApplied(f, m, r) ==
  IF r = "nofunc" THEN Return(f, "apply")
  ELSE LET f1 == Logged(f, LogEntry("RunFunc", m.Version, r)) IN
       IF r = "ok" THEN [f1 EXCEPT !.pc = "insert"]
       ELSE Return(f1, "apply")

RunApply(p) ==
  /\ NoReturn
  /\ frame[p].pc = "apply"
  /\ LET m == frame[p].walk[frame[p].i] IN
     \E r \in Migration_Run(m) :
       frame' = [frame EXCEPT ![p] = RunApplied(@, m, r)]
  /\ UNCHANGED <<config, aside, returned, called, store>>

\* Variant: n is counted before the result of Insert is looked at.
RunInserted_CountFirst(f, v, res) ==
  LET f1 == [Logged(f, LogEntry("Insert", v, res)) EXCEPT !.n = @ + 1] IN
  IF res # "ok" THEN Return(f1, "insert")
  ELSE IF f1.i = Len(f1.walk)
       THEN Return([f1 EXCEPT !.shouldRelease = TRUE], "nil")
       ELSE [f1 EXCEPT !.i = @ + 1, !.pc = "apply"]

\* The frame after m.Store.Insert(ctx, v) gave res: n += 1 and the loop's
\* next turn, or the return of the error.
RunInserted(f, v, res) ==
  LET f1 == Logged(f, LogEntry("Insert", v, res)) IN
  IF res # "ok" THEN Return(f1, "insert")
  ELSE LET f2 == [f1 EXCEPT !.n = @ + 1] IN
       IF f2.i = Len(f2.walk)
       THEN Return([f2 EXCEPT !.shouldRelease = TRUE], "nil")
       ELSE [f2 EXCEPT !.i = @ + 1, !.pc = "apply"]

RunInsert(p) ==
  /\ NoReturn
  /\ frame[p].pc = "insert"
  /\ LET v == frame[p].walk[frame[p].i].Version IN
     \E out \in Sqlite3Store_Insert(tables, schema_migrations, v) :
       /\ schema_migrations' = out.rows
       /\ frame' = [frame EXCEPT ![p] = RunInserted(@, v, out.res)]
  /\ UNCHANGED <<config, aside, returned, called, tables, schema_lock>>

\* Variant: the loop stops below the target, not at it.
RevertLoop_Inclusive(f) ==
  IF f.remoteVersion < f.to
  THEN Return([f EXCEPT !.shouldRelease = TRUE], "nil")
  ELSE LET found == BinarySearchFunc(Sources, f.remoteVersion) IN
       IF ~found.ok THEN Return(f, "missing remote version")
       ELSE [f EXCEPT !.i = found.idx, !.pc = "revert"]

\* Revert: the head of the for loop with remoteVersion just read.
RevertLoop(f) ==
  IF f.remoteVersion <= f.to
  THEN Return([f EXCEPT !.shouldRelease = TRUE], "nil")
  ELSE LET found == BinarySearchFunc(Sources, f.remoteVersion) IN
       IF ~found.ok THEN Return(f, "missing remote version")
       ELSE [f EXCEPT !.i = found.idx, !.pc = "revert"]

\* Variant: HoldLockOnFailure is applied before the result of Version is
\* looked at.
RevertSelect_HoldFirst(f, out) ==
  LET f1 == [Logged(f, LogEntry("Version", out.v, out.res))
               EXCEPT !.remoteVersion = out.v, !.base = schema_migrations,
                      !.shouldRelease = ReleaseDuringWalk(HoldLockOnFailure)] IN
  IF out.res = "ErrInitialVersion" THEN Return(f1, "nil")
  ELSE IF out.res = "err" THEN Return(f1, "version")
  ELSE RevertLoop([f1 EXCEPT !.n = 0])

\* Revert after the first m.Store.Version(ctx).
RevertSelect(f, out) ==
  LET f1 == [Logged(f, LogEntry("Version", out.v, out.res))
               EXCEPT !.remoteVersion = out.v, !.base = schema_migrations] IN
  IF out.res = "ErrInitialVersion" THEN Return(f1, "nil")
  ELSE IF out.res = "err" THEN Return(f1, "version")
  ELSE RevertLoop([f1 EXCEPT
         !.shouldRelease = ReleaseDuringWalk(HoldLockOnFailure), !.n = 0])

RevertVersion(p) ==
  /\ NoReturn
  /\ frame[p].pc = "version" /\ frame[p].op = "Revert"
  /\ \E out \in Sqlite3Store_Version(tables, schema_migrations) :
       frame' = [frame EXCEPT ![p] = RevertSelect(@, out)]
  /\ UNCHANGED <<config, aside, returned, called, store>>

\* The frame after migration.Revert(ctx, m.Store.DB()) gave r for migration m.
RevertActed(f, m, r) ==
  IF r = "nofunc" THEN Return(f, "revert")
  ELSE LET f1 == Logged(f, LogEntry("RevertFunc", m.Version, r)) IN
       IF r = "ok" THEN [f1 EXCEPT !.pc = "remove"]
       ELSE Return(f1, "revert")

RevertAction(p) ==
  /\ NoReturn
  /\ frame[p].pc = "revert"
  /\ LET m == Sources[frame[p].i] IN
     \E r \in Migration_Revert(m) :
       frame' = [frame EXCEPT ![p] = RevertActed(@, m, r)]
  /\ UNCHANGED <<config, aside, returned, called, store>>

\* The frame after m.Store.Remove(ctx, v) gave res, with n++ on success.
RevertRemoved(f, v, res) ==
  LET f1 == Logged(f, LogEntry("Remove", v, res)) IN
  IF res # "ok" THEN Return(f1, "remove")
  ELSE [f1 EXCEPT !.n = @ + 1, !.pc = "reversion"]

RevertRemove(p) ==
  /\ NoReturn
  /\ frame[p].pc = "remove"
  /\ LET v == Sources[frame[p].i].Version IN
     \E out \in Sqlite3Store_Remove(tables, schema_migrations, v) :
       /\ schema_migrations' = out.rows
       /\ frame' = [frame EXCEPT ![p] = RevertRemoved(@, v, out.res)]
  /\ UNCHANGED <<config, aside, returned, called, tables, schema_lock>>

\* Variant: the version read by the re-query is not assigned to remoteVersion.
RevertRequeried_Stale(f, out) ==
  LET f1 == Logged(f, LogEntry("Version", out.v, out.res)) IN
  IF out.res = "ErrInitialVersion" THEN Return(f1, "nil")
  ELSE IF out.res = "err" THEN Return(f1, "version")
  ELSE RevertLoop(f1)

\* Variant: every error of the re-query is taken for ErrInitialVersion.
RevertRequeried_Swallowed(f, out) ==
  LET f1 == [Logged(f, LogEntry("Version", out.v, out.res))
               EXCEPT !.remoteVersion = out.v] IN
  IF out.res # "ok" THEN Return(f1, "nil")
  ELSE RevertLoop(f1)

\* The frame after m.Store.Version(ctx) at the end of a turn of Revert's loop.
RevertRequeried(f, out) ==
  LET f1 == [Logged(f, LogEntry("Version", out.v, out.res))
               EXCEPT !.remoteVersion = out.v] IN
  IF out.res = "ErrInitialVersion" THEN Return(f1, "nil")
  ELSE IF out.res = "err" THEN Return(f1, "version")
  ELSE RevertLoop(f1)

RevertReversion(p) ==
  /\ NoReturn
  /\ frame[p].pc = "reversion"
  /\ \E out \in Sqlite3Store_Version(tables, schema_migrations) :
       frame' = [frame EXCEPT ![p] = RevertRequeried(@, out)]
  /\ UNCHANGED <<config, aside, returned, called, store>>

\* Variant: the error of Release is dropped.
Released_Discarded(f, res) ==
  [Logged(f, LogEntry("Release", 0, res)) EXCEPT !.pc = "done"]

\* The deferred function with shouldRelease set: m.Store.Release(ctx), a
\* failure of which is joined to err.
Released(f, res) ==
  [Logged(f, LogEntry("Release", 0, res))
     EXCEPT !.pc = "done", !.rlErr = (res # "ok")]

Release(p) ==
  /\ NoReturn
  /\ frame[p].pc = "release"
  /\ \E out \in Sqlite3Store_Release(tables, schema_lock) :
       /\ schema_lock' = out.rows
       /\ frame' = [frame EXCEPT ![p] = Released(@, out.res)]
  /\ UNCHANGED <<config, aside, returned, called, tables, schema_migrations>>

\* The call returns (n, err) to its caller and its frame is gone.
Returned(p) ==
  /\ frame[p].pc = "done"
  /\ frame' = [frame EXCEPT ![p] = IdleFrame]
  /\ UNCHANGED <<config, aside, returned, called, store>>

\* An operator clears a lock that no running invocation holds, by calling
\* Store.Release directly.
ManualRelease ==
  /\ NoReturn
  /\ 1 \in schema_lock
  /\ \A p \in Procs : ~InCritical(p)
  /\ \E out \in Sqlite3Store_Release(tables, schema_lock) :
       /\ out.res = "ok"
       /\ schema_lock' = out.rows
  /\ UNCHANGED <<config, aside, returned, called, tables, schema_migrations, frame>>

Common ==
  \/ \E p \in Procs, op \in {"Run", "Revert"}, to \in Targets : Call(p, op, to)
  \/ \E p \in Procs : RunApply(p)
  \/ \E p \in Procs : RunInsert(p)
  \/ \E p \in Procs : RevertVersion(p)
  \/ \E p \in Procs : RevertAction(p)
  \/ \E p \in Procs : RevertRemove(p)
  \/ \E p \in Procs : RevertReversion(p)
  \/ \E p \in Procs : Release(p)
  \/ \E p \in Procs : Returned(p)
  \/ ManualRelease

Next == Common \/ \E p \in Procs : RunVersion(p)

Spec == Init /\ [][Next]_vars

\* The Migrator of src/up/migrator.go.
NextLogW == Common \/ \E p \in Procs : RunVersionLogW(p)

SpecLogW == Init /\ [][NextLogW]_vars

\* ------------------------------------------------------------ a lone caller
\* One caller making one call after the other, nothing else using the store
\* in between.  returned holds, oldest first, the calls of the unbroken
\* series of successful calls that ended last, the latest two of them, each
\* with its target and the rows of schema_migrations at its return.
Caller == 1

Succeeded(f) == f.err = "nil" /\ ~f.rlErr

Summary(f) == [op |-> f.op, to |-> f.to, applied |-> schema_migrations]

Latest(h) == IF Len(h) > 2 THEN Tail(h) ELSE h

ReturnedSeq ==
  /\ frame[Caller].pc = "done"
  /\ returned' = IF Succeeded(frame[Caller])
                 THEN Latest(Append(returned, Summary(frame[Caller])))
                 ELSE <<>>
  /\ frame' = [frame EXCEPT ![Caller] = IdleFrame]
  /\ UNCHANGED <<config, aside, called, store>>

NextSeq ==
  \/ \E op \in {"Run", "Revert"}, to \in Targets : Call(Caller, op, to)
  \/ RunVersion(Caller)
  \/ RunApply(Caller)
  \/ RunInsert(Caller)
  \/ RevertVersion(Caller)
  \/ RevertAction(Caller)
  \/ RevertRemove(Caller)
  \/ RevertReversion(Caller)
  \/ Release(Caller)
  \/ ReturnedSeq

SpecSeq == Init /\ [][NextSeq]_vars

\* ------------------------------------------------------------ a fresh store
\* The Migrator on a database that holds no version when it is first used.
InitFresh == Init /\ schema_migrations = {}

SpecFresh == InitFresh /\ [][Next]_vars

\* ------------------------------------------------ a lone caller that goes on
\* One caller, with no history kept.  A call that was made goes on: every
\* Store call and every migration function returns, and the goroutine of the
\* call takes its next step.
Proceed ==
  \/ RunVersion(Caller)
  \/ RunApply(Caller)
  \/ RunInsert(Caller)
  \/ RevertVersion(Caller)
  \/ RevertAction(Caller)
  \/ RevertRemove(Caller)
  \/ RevertReversion(Caller)
  \/ Release(Caller)
  \/ Returned(Caller)

NextLone ==
  \/ \E op \in {"Run", "Revert"}, to \in Targets : Call(Caller, op, to)
  \/ Proceed

SpecLone == Init /\ [][NextLone]_vars /\ WF_vars(Proceed)

\* ------------------------------------------- a lone caller who calls again
\* One caller, and an operator who clears a lock that was left behind.
\* failed holds the call that returned last when it ended on a failed Insert
\* or Remove: the operation, its target and the version whose function had
\* succeeded.
Failure(f) ==
  IF f.err = "insert"
  THEN <<[op |-> f.op, to |-> f.to, v |-> f.walk[f.i].Version]>>
  ELSE IF f.err = "remove"
  THEN <<[op |-> f.op, to |-> f.to, v |-> Sources[f.i].Version]>>
  ELSE <<>>

ReturnedAgain ==
  /\ frame[Caller].pc = "done"
  /\ failed' = Failure(frame[Caller])
  /\ frame' = [frame EXCEPT ![Caller] = IdleFrame]
  /\ UNCHANGED <<config, retrying, returned, called, store>>

NextAgain ==
  \/ \E op \in {"Run", "Revert"}, to \in Targets : Call(Caller, op, to)
  \/ RunVersion(Caller)
  \/ RunApply(Caller)
  \/ RunInsert(Caller)
  \/ RevertVersion(Caller)
  \/ RevertAction(Caller)
  \/ RevertRemove(Caller)
  \/ RevertReversion(Caller)
  \/ Release(Caller)
  \/ ReturnedAgain
  \/ ManualRelease

SpecAgain == Init /\ [][NextAgain]_vars

\* ------------------------------------------------------------ retry by itself
\* One call of retry(ctx, fn, opts...), and the owner of ctx, who can cancel
\* it at any moment.
InitRetry ==
  /\ Sources = <<>> /\ HoldLockOnFailure = FALSE
  /\ tables = {} /\ schema_lock = {} /\ schema_migrations = {}
  /\ frame = [p \in Procs |-> IdleFrame]
  /\ returned = <<>> /\ called = <<>> /\ failed = <<>>
  /\ options \in OptionSets
  /\ ctx = "nil"
  /\ loop = IdleLoop
  /\ events = <<>>

migrating == <<config, store, frame, returned, called, failed>>

\* retry is called: the options are there, currentDelay is set and the loop
\* starts with i = 1.
retry ==
  /\ loop.pc = "idle"
  /\ loop' = LoopHead([loop EXCEPT !.i = 1, !.currentDelay = options.Delay], options)
  /\ UNCHANGED <<migrating, options, ctx, events>>

\* res, err := fn(ctx), which gives nil or an error whatever the state of
\* ctx; then the return of res, or lastErr = err and the break at MaxTries.
Attempt ==
  /\ loop.pc = "fn"
  /\ \E err \in {NilErr, loop.i} :
       /\ events' = Append(events, FnEvent(loop.i, err))
       /\ loop' = IF err = NilErr THEN Returning(loop, NilErr)
                  ELSE LET l == [loop EXCEPT !.lastErr = err] IN
                       IF l.i = options.MaxTries THEN Returning(l, l.lastErr)
                       ELSE [l EXCEPT !.pc = "check"]
  /\ UNCHANGED <<migrating, options, ctx>>

\* if ctx.Err() != nil, and else the sleep duration and the timer.
CheckCtx ==
  /\ loop.pc = "check"
  /\ IF ctx # "nil" THEN loop' = Returning(loop, CtxErr)
     ELSE \E sd \in SleepDurations(options, loop.currentDelay) :
            loop' = [loop EXCEPT !.sleepDuration = sd, !.pc = "select"]
  /\ UNCHANGED <<migrating, options, ctx, events>>

\* The select is entered: one of the cases that are ready is taken, any of
\* them when both are; with none ready the goroutine waits.
Select ==
  /\ loop.pc = "select"
  /\ IF Ready(loop, ctx) = {} THEN loop' = [loop EXCEPT !.pc = "parked"]
     ELSE \E c \in Ready(loop, ctx) :
            loop' = IF c = "ctx" THEN Returning(loop, CtxErr)
                    ELSE Proceeding(loop, options)
  /\ UNCHANGED <<migrating, options, ctx, events>>

\* The timer fires while the goroutine waits in the select.
TimerFires ==
  /\ loop.pc = "parked"
  /\ loop' = Proceeding(loop, options)
  /\ UNCHANGED <<migrating, options, ctx, events>>

\* The owner of ctx cancels it; a goroutine that waits in the select is
\* woken on ctx.Done().
Cancel ==
  /\ ctx = "nil"
  /\ loop.pc # "done"
  /\ ctx' = "canceled"
  /\ events' = Append(events, CancelEvent(loop.pc))
  /\ loop' = IF loop.pc = "parked" THEN Returning(loop, CtxErr) ELSE loop
  /\ UNCHANGED <<migrating, options>>

NextRetry ==
  \/ retry
  \/ Attempt
  \/ CheckCtx
  \/ Select
  \/ TimerFires
  \/ Cancel

SpecRetry == InitRetry /\ [][NextRetry]_vars

\* ------------------------------------------------------- the Store by itself
\* The methods of the Sqlite3Store called directly, in any order and with any
\* version, as its own tests do.  called holds the latest two calls, oldest
\* first: the method, its argument, the error and the value it returned, and
\* the tables and rows it found.
InitStore == Init /\ Sources = <<>> /\ ~HoldLockOnFailure

Direct(op, v, res, out) ==
  Latest(Append(called,
    [op |-> op, v |-> v, res |-> res, out |-> out,
     tables |-> tables, lock |-> schema_lock, rows |-> schema_migrations]))

DirectInit ==
  /\ \E o \in Sqlite3Store_Init(tables) :
       /\ tables' = o.tables
       /\ called' = Direct("Init", 0, o.res, 0)
  /\ UNCHANGED <<config, aside, returned, frame, schema_lock, schema_migrations>>

DirectLock ==
  /\ \E o \in Sqlite3Store_Lock(tables, schema_lock) :
       /\ schema_lock' = o.rows
       /\ called' = Direct("Lock", 0, o.res, 0)
  /\ UNCHANGED <<config, aside, returned, frame, tables, schema_migrations>>

DirectRelease ==
  /\ \E o \in Sqlite3Store_Release(tables, schema_lock) :
       /\ schema_lock' = o.rows
       /\ called' = Direct("Release", 0, o.res, 0)
  /\ UNCHANGED <<config, aside, returned, frame, tables, schema_migrations>>

DirectVersion ==
  /\ \E o \in Sqlite3Store_Version(tables, schema_migrations) :
       called' = Direct("Version", 0, o.res, o.v)
  /\ UNCHANGED <<config, aside, returned, frame, store>>

DirectInsert(v) ==
  /\ \E o \in Sqlite3Store_Insert(tables, schema_migrations, v) :
       /\ schema_migrations' = o.rows
       /\ called' = Direct("Insert", v, o.res, 0)
  /\ UNCHANGED <<config, aside, returned, frame, tables, schema_lock>>

DirectRemove(v) ==
  /\ \E o \in Sqlite3Store_Remove(tables, schema_migrations, v) :
       /\ schema_migrations' = o.rows
       /\ called' = Direct("Remove", v, o.res, 0)
  /\ UNCHANGED <<config, aside, returned, frame, tables, schema_lock>>

NextStore ==
  \/ DirectInit
  \/ DirectLock
  \/ DirectRelease
  \/ DirectVersion
  \/ \E v \in Versions : DirectInsert(v)
  \/ \E v \in Versions : DirectRemove(v)

SpecStore == InitStore /\ [][NextStore]_vars

TypeOK ==
  /\ schema_lock \subseteq {1}
  /\ schema_migrations \subseteq Versions
  /\ \A p \in Procs : frame[p].n \in 0..MaxVersion

\* ------------------------------------------------------ notions of the claims
\* The versions of the entries of a log made by the operation op, in order.
RECURSIVE VersionsLogged(_, _)
VersionsLogged(log, op) ==
  IF log = <<>> THEN <<>>
  ELSE IF Head(log).op = op THEN <<Head(log).v>> \o VersionsLogged(Tail(log), op)
  ELSE VersionsLogged(Tail(log), op)

Count(log, op) == Len(VersionsLogged(log, op))

Ascending(S) ==
  CHOOSE s \in [1..Cardinality(S) -> S] : \A a, b \in 1..Cardinality(S) : a < b => s[a] < s[b]

Descending(S) ==
  CHOOSE s \in [1..Cardinality(S) -> S] : \A a, b \in 1..Cardinality(S) : a < b => s[a] > s[b]

\* The current version of a set of applied versions; 0 stands for none.
Current(S) == IF S = {} THEN 0 ELSE Max(S)

Locked == 1 \in schema_lock

\* The walk of the invocation is over without an error of the walk; the call
\* is at its deferred release or at its return.
WalkedWithoutError(p, op) ==
  /\ frame[p].op = op
  /\ frame[p].pc \in {"release", "done"}
  /\ frame[p].err = "nil"
  /\ Count(frame[p].log, "Version") > 0

\* The lock attempt of the invocation failed.
LockFailed(f) ==
  \E k \in 1..Len(f.log) : f.log[k].op = "Lock" /\ f.log[k].res # "ok"

\* -------------------------------------------------------------------- C1
\* C1: at most one invocation at a time is between its successful Lock and
\* its Release/return; no two invocations are inside their walk at once, and
\* an invocation that is there finds the lock row in place.
C1_MutualExclusion ==
  \A p, q \in Procs :
    /\ (p # q => ~(InCritical(p) /\ InCritical(q)))
    /\ (InCritical(p) => Locked)

\* One invocation is recording a migration while another one is returning
\* ErrLocked.
C1_Witness ==
  \E p, q \in Procs :
    /\ frame[p].pc = "insert"
    /\ frame[q].pc = "done" /\ frame[q].err = "ErrLocked"

\* -------------------------------------------------------------------- C2
\* C2: when Lock fails, Run and Revert return an error at once: the only
\* Store calls of the invocation are Init and that one Lock (no Version,
\* Insert, Remove, Release, no migration function), and the step leaves the
\* lock row and the applied versions as they were.
C2_State ==
  \A p \in Procs :
    LockFailed(frame[p]) =>
      /\ frame[p].pc = "done"
      /\ frame[p].err \in {"ErrLocked", "lock"}
      /\ Len(frame[p].log) = 2
      /\ frame[p].log[1] = LogEntry("Init", 0, "ok")
      /\ frame[p].log[2].op = "Lock"
      /\ frame[p].n = 0

C2_Step ==
  \A p \in Procs :
    (~LockFailed(frame[p]) /\ LockFailed(frame'[p])) =>
      /\ schema_lock' = schema_lock
      /\ schema_migrations' = schema_migrations

C2_LockFailureReturnsAtOnce == [][C2_State' /\ C2_Step]_vars

\* Revert returns ErrLocked while the lock is held and versions are applied.
C2_Witness ==
  \E p \in Procs :
    /\ frame[p].pc = "done" /\ frame[p].op = "Revert"
    /\ frame[p].err = "ErrLocked"
    /\ Locked /\ schema_migrations # {}

\* -------------------------------------------------------------------- C3
\* C3: a Run without a failing step invokes and records exactly the Source
\* versions above the current version that are <= target (all of them for
\* the latest sentinel), in ascending order, and nothing else; afterwards
\* the current version is the largest version selected.
C3_Selected(p) ==
  {v \in VersionSet(Sources) :
     /\ v > Current(frame[p].base)
     /\ (frame[p].to = RunTargetLatest \/ v <= frame[p].to)}

C3_RunAppliesSelection ==
  \A p \in Procs :
    WalkedWithoutError(p, "Run") =>
      /\ VersionsLogged(frame[p].log, "RunFunc") = Ascending(C3_Selected(p))
      /\ VersionsLogged(frame[p].log, "Insert") = Ascending(C3_Selected(p))
      /\ Count(frame[p].log, "RevertFunc") = 0
      /\ Count(frame[p].log, "Remove") = 0
      /\ frame[p].n = Cardinality(C3_Selected(p))
      /\ schema_migrations = frame[p].base \cup C3_Selected(p)
      /\ (C3_Selected(p) # {} => Current(schema_migrations) = Max(C3_Selected(p)))

\* Scenario B: Sources 1, 2, 3, store at version 1, Run(2) applied only 2.
C3_Witness ==
  \E p \in Procs :
    /\ WalkedWithoutError(p, "Run") /\ frame[p].pc = "done" /\ ~frame[p].rlErr
    /\ VersionsOf(Sources) = <<1, 2, 3>>
    /\ frame[p].to = 2 /\ frame[p].base = {1}
    /\ schema_migrations = {1, 2}

\* -------------------------------------------------------------------- C4
\* C4: a Run to the latest sentinel (-1) without a failing step has executed
\* and recorded every Source migration above the current version, so that
\* the current version is then the highest Source version.
C4_LatestAppliesEverything ==
  \A p \in Procs :
    (WalkedWithoutError(p, "Run") /\ frame[p].to = RunTargetLatest) =>
      LET pending == {v \in VersionSet(Sources) : v > Current(frame[p].base)} IN
      /\ VersionsLogged(frame[p].log, "Insert") = Ascending(pending)
      /\ pending \subseteq schema_migrations
      /\ (pending # {} => Current(schema_migrations) = Max(VersionSet(Sources)))

\* -------------------------------------------------------------------- C5
\* C5: Run is fail-fast and ordered: a version is inserted only right after
\* its own function succeeded, functions run in ascending version order,
\* after the first failure of a function or of an Insert nothing but the
\* release follows and the call is over with an error, the failing version
\* is not recorded, and the versions inserted before it stay recorded.
C5_LogInOrder(f) ==
  \A k \in 1..Len(f.log) :
    /\ (f.log[k].op = "Insert" =>
          k > 1 /\ f.log[k - 1] = LogEntry("RunFunc", f.log[k].v, "ok"))
    /\ (f.log[k].op = "RunFunc" =>
          \A j \in 1..(k - 1) : f.log[j].op = "RunFunc" => f.log[j].v < f.log[k].v)
    /\ ((f.log[k].op \in {"RunFunc", "Insert"} /\ f.log[k].res # "ok") =>
          /\ f.pc \in {"release", "done"}
          /\ f.err \in {"apply", "insert"}
          /\ \A j \in (k + 1)..Len(f.log) : f.log[j].op = "Release"
          /\ f.log[k].v \notin schema_migrations)
    /\ ((f.log[k].op = "Insert" /\ f.log[k].res = "ok") =>
          f.log[k].v \in schema_migrations)

C5_RunFailsFast ==
  \A p \in Procs : frame[p].op = "Run" => C5_LogInOrder(frame[p])

\* Scenario E: Sources 1, 2, 3, empty store, Run(3) with the function of 2
\* failing: 1 is recorded, 3 was never attempted.
C5_Witness ==
  \E p \in Procs :
    /\ frame[p].op = "Run" /\ frame[p].pc = "done" /\ frame[p].to = 3
    /\ VersionsOf(Sources) = <<1, 2, 3>>
    /\ frame[p].base = {}
    /\ VersionsLogged(frame[p].log, "RunFunc") = <<1, 2>>
    /\ frame[p].err = "apply" /\ frame[p].n = 1
    /\ schema_migrations = {1}

\* -------------------------------------------------------------------- C6
\* C6: a Revert without a failing step reverts and removes exactly the
\* applied versions strictly above the target, highest first, never the
\* target or anything below it, and reports their number; with target 0
\* these are all the applied versions.
C6_Above(p) == {v \in frame[p].base : v > frame[p].to}

C6_RevertRemovesAbove ==
  \A p \in Procs :
    WalkedWithoutError(p, "Revert") =>
      /\ VersionsLogged(frame[p].log, "RevertFunc") = Descending(C6_Above(p))
      /\ VersionsLogged(frame[p].log, "Remove") = Descending(C6_Above(p))
      /\ Count(frame[p].log, "RunFunc") = 0
      /\ Count(frame[p].log, "Insert") = 0
      /\ frame[p].n = Cardinality(C6_Above(p))
      /\ schema_migrations = frame[p].base \ C6_Above(p)
      /\ (frame[p].to = RevertTargetInitial => schema_migrations = {})

\* Scenario C: Sources 1, 2, 3, store at version 3, Revert(1) reverted 3
\* then 2.
C6_Witness ==
  \E p \in Procs :
    /\ WalkedWithoutError(p, "Revert") /\ frame[p].pc = "done" /\ ~frame[p].rlErr
    /\ VersionsOf(Sources) = <<1, 2, 3>>
    /\ frame[p].to = 1 /\ frame[p].base = {1, 2, 3}
    /\ frame[p].n = 2 /\ schema_migrations = {1}

\* -------------------------------------------------------------------- C7
\* C7: when Run or Revert acquired the lock and returns without an error,
\* the lock is free at the return, whatever HoldLockOnFailure and the target.
C7_SuccessLeavesLockFree ==
  \A p \in Procs :
    (/\ frame[p].pc = "done"
     /\ Count(frame[p].log, "Version") > 0
     /\ frame[p].err = "nil" /\ ~frame[p].rlErr) => ~Locked

\* -------------------------------------------------------------------- C8
\* C8 as amended: when a migration function or an Insert/Remove fails in the
\* walk, then with HoldLockOnFailure the call returns with the lock held and
\* without a call of Release; without it Release is called once, and the
\* lock is free at the return unless that Release failed.
C8_WalkFailed(p) ==
  /\ frame[p].pc = "done"
  /\ frame[p].err \in {"apply", "insert", "revert", "remove"}

C8_LockAfterWalkFailure ==
  \A p \in Procs :
    C8_WalkFailed(p) =>
      IF HoldLockOnFailure
      THEN Locked /\ Count(frame[p].log, "Release") = 0
      ELSE /\ Count(frame[p].log, "Release") = 1
           /\ (frame[p].rlErr <=> Locked)

\* C8 as stated: without HoldLockOnFailure the lock has been released when
\* the call returns.
C8_AsStated ==
  \A p \in Procs :
    C8_WalkFailed(p) =>
      IF HoldLockOnFailure
      THEN Locked /\ Count(frame[p].log, "Release") = 0
      ELSE ~Locked

\* Scenario F: Scenario E with HoldLockOnFailure leaves the lock held.
C8_Witness ==
  \E p \in Procs :
    /\ C8_WalkFailed(p) /\ HoldLockOnFailure
    /\ frame[p].op = "Run" /\ frame[p].err = "apply" /\ frame[p].n = 1
    /\ Locked

\* -------------------------------------------------------------------- C9
\* C9: with a Source list that has a version <= 0, a version lower than its
\* predecessor or a duplicate, Run and Revert fail for every target with one
\* and the same validation error, and no invocation makes any Store call.
C9_Bad(vl, k) ==
  \/ vl[k] <= 0
  \/ k > 1 /\ vl[k] < vl[k - 1]
  \/ \E j \in 1..(k - 1) : vl[j] = vl[k]

C9_Invalid(vl) == \E k \in 1..Len(vl) : C9_Bad(vl, k)

C9_Error(vl) ==
  LET k == CHOOSE c \in 1..Len(vl) : C9_Bad(vl, c) /\ \A j \in 1..(c - 1) : ~C9_Bad(vl, j) IN
  IF vl[k] <= 0 THEN "version must be > 0"
  ELSE IF k > 1 /\ vl[k] < vl[k - 1] THEN "migration order"
  ELSE "duplicate migration version"

C9_InvalidSourcesTouchNothing ==
  C9_Invalid(VersionsOf(Sources)) =>
    /\ ~Locked
    /\ \A p \in Procs :
         /\ frame[p].pc \in {"idle", "done"}
         /\ frame[p].log = <<>>
         /\ (frame[p].pc = "done" =>
               /\ frame[p].err = "invalid sources"
               /\ frame[p].cause = C9_Error(VersionsOf(Sources)))

\* Revert(0) over the Source versions 1, 1 returns the duplicate error.
C9_Witness ==
  \E p \in Procs :
    /\ VersionsOf(Sources) = <<1, 1>>
    /\ frame[p].pc = "done" /\ frame[p].op = "Revert"
    /\ frame[p].to = RevertTargetInitial
    /\ frame[p].cause = "duplicate migration version"

\* ------------------------------------------------------------------- C10
\* C10: a Revert to a target that is neither 0 nor a Source version (a
\* negative one included) fails without any Store call: no Init, no Lock, no
\* reversion.
C10_UnknownTargetTouchesNothing ==
  \A p \in Procs :
    (/\ frame[p].op = "Revert"
     /\ frame[p].to # RevertTargetInitial
     /\ frame[p].to \notin VersionSet(Sources)) =>
      /\ frame[p].pc = "done"
      /\ frame[p].err \in {"missing target version", "invalid sources"}
      /\ frame[p].log = <<>>
      /\ frame[p].n = 0

\* Scenario D: the store is at the highest Source version and Revert is
\* called with a target above it.
C10_Witness ==
  \E p \in Procs :
    /\ VersionsOf(Sources) = <<1, 2>> /\ schema_migrations = {1, 2}
    /\ frame[p].op = "Revert" /\ frame[p].to = 3
    /\ frame[p].pc = "done" /\ frame[p].err = "missing target version"

\* ------------------------------------------------------------------- C11
\* The versions of the entries of a log made by op that succeeded.
OkVersions(log, op) ==
  {log[k].v : k \in {j \in 1..Len(log) : log[j].op = op /\ log[j].res = "ok"}}

\* The call made op for version v, whatever the result.
Attempted(log, op, v) ==
  \E k \in 1..Len(log) : log[k].op = op /\ log[k].v = v

\* The entries of a log before its Release.
BeforeRelease(log) ==
  LET notRelease(e) == e.op # "Release" IN SelectSeq(log, notRelease)

\* The Revert read a current version above its target that no Source
\* migration has.
C11_Inconsistent(f) ==
  /\ f.op = "Revert"
  /\ Count(f.log, "Version") > 0
  /\ f.remoteVersion > f.to
  /\ f.remoteVersion \notin VersionSet(Sources)

\* C11: a Revert that finds the current version above the target and without
\* a Source migration stops there with an error (and only then with that
\* error): it neither invokes a revert function nor calls Remove for that
\* version, its last Store call before the release is the Version that read
\* it, and the rows are those of the start less the versions it removed
\* before, the unknown version still the highest of them.
C11_UnknownVersionStopsRevert ==
  \A p \in Procs :
    LET f == frame[p] IN
    /\ (f.err = "missing remote version" => C11_Inconsistent(f))
    /\ (C11_Inconsistent(f) =>
          /\ f.pc \in {"release", "done"}
          /\ f.err = "missing remote version"
          /\ ~Attempted(f.log, "RevertFunc", f.remoteVersion)
          /\ ~Attempted(f.log, "Remove", f.remoteVersion)
          /\ LET b == BeforeRelease(f.log) IN
             b[Len(b)] = LogEntry("Version", f.remoteVersion, "ok")
          /\ schema_migrations = f.base \ OkVersions(f.log, "Remove")
          /\ Current(schema_migrations) = f.remoteVersion
          /\ f.n = Cardinality(OkVersions(f.log, "Remove")))

\* Sources 1, 3 over a store that records 2 and 3: Revert(0) reverts 3 and
\* stops at 2.
C11_Witness ==
  \E p \in Procs :
    /\ frame[p].pc = "done" /\ frame[p].err = "missing remote version"
    /\ VersionsOf(Sources) = <<1, 3>>
    /\ frame[p].to = RevertTargetInitial
    /\ frame[p].base = {2, 3} /\ frame[p].n = 1
    /\ schema_migrations = {2}

\* ------------------------------------------------------------------- C12
\* The call ended on an error of the configuration: invalid Sources, a
\* Revert target that is no Source version, or a migration whose function
\* is unset.
C12_ConfigurationError(f) ==
  \/ f.err \in {"invalid sources", "missing target version"}
  \/ f.err = "apply" /\ f.walk[f.i].RunFunc = "nil"
  \/ f.err = "revert" /\ Sources[f.i].RevertFunc = "nil"

\* C12: a call that returns a configuration error has made no successful
\* Insert and no successful Remove.
C12_ConfigurationErrorBeforeMutation ==
  \A p \in Procs :
    (frame[p].pc = "done" /\ C12_ConfigurationError(frame[p])) =>
      /\ OkVersions(frame[p].log, "Insert") = {}
      /\ OkVersions(frame[p].log, "Remove") = {}

\* ------------------------------------------------------------------- C13
\* The Source versions above the current version read by the Run and up to
\* its target.
C13_Selected(f) ==
  {v \in VersionSet(Sources) :
     v > Current(f.base) /\ (f.to = RunTargetLatest \/ v <= f.to)}

Failed(e) == e.res \notin {"ok", "ErrInitialVersion"}

\* The error of a call whose Store call or migration function e failed.
ErrorOf(e) ==
  CASE e.op = "Init" -> "init"
    [] e.op = "Lock" -> (IF e.res = "ErrLocked" THEN "ErrLocked" ELSE "lock")
    [] e.op = "Version" -> "version"
    [] e.op = "RunFunc" -> "apply"
    [] e.op = "Insert" -> "insert"
    [] e.op = "RevertFunc" -> "revert"
    [] e.op = "Remove" -> "remove"

\* The positions of the failures in the log of a call before its release.
Failures(f) ==
  {k \in 1..Len(f.log) : f.log[k].op # "Release" /\ Failed(f.log[k])}

\* C13: the n a Run returns is the number of its successful Inserts, whatever
\* failed; those are selected versions, and n plus the number of selected
\* versions not in schema_migrations is the number of selected versions; the
\* error is that of the first failure of the call.
C13_RunCountsInserts ==
  \A p \in Procs :
    LET f == frame[p] IN
    (f.op = "Run" /\ f.pc = "done") =>
      /\ f.n = Cardinality(OkVersions(f.log, "Insert"))
      /\ f.n = Len(SelectSeq(f.log, LAMBDA e : e.op = "Insert" /\ e.res = "ok"))
      /\ (Count(f.log, "Version") > 0 =>
            /\ OkVersions(f.log, "Insert") \subseteq C13_Selected(f)
            /\ f.n + Cardinality(C13_Selected(f) \ schema_migrations)
                 = Cardinality(C13_Selected(f)))
      /\ IF Failures(f) # {}
         THEN f.err = ErrorOf(f.log[CHOOSE k \in Failures(f) :
                                      \A j \in Failures(f) : k <= j])
         ELSE f.err \in {"nil", "invalid sources"}
              \/ (f.err = "apply" /\ f.walk[f.i].RunFunc = "nil")

\* Sources 1, 2, 3 over an empty store: Run(-1) records 1 and fails on the
\* Insert of 2.
C13_Witness ==
  \E p \in Procs :
    /\ frame[p].op = "Run" /\ frame[p].pc = "done"
    /\ frame[p].to = RunTargetLatest
    /\ VersionsOf(Sources) = <<1, 2, 3>> /\ frame[p].base = {}
    /\ frame[p].err = "insert" /\ frame[p].n = 1
    /\ schema_migrations = {1}

\* ------------------------------------------------------------------- C14
\* The error a call returns: the error of the walk and the error of Release,
\* joined.
ReturnedError(f) ==
  (IF f.err = "nil" THEN {} ELSE {f.err})
  \cup (IF f.rlErr THEN {"release"} ELSE {})

C14_ReleaseFailed(f) ==
  \E k \in 1..Len(f.log) : f.log[k].op = "Release" /\ f.log[k].res # "ok"

\* C14: a call whose Release failed returns an error that holds the failure
\* of Release and with it the error of the walk if there was one; a Run that
\* inserted every selected version returns an error too, and the versions
\* stay in schema_migrations.
C14_ReleaseFailureReturned ==
  \A p \in Procs :
    LET f == frame[p] IN
    (f.pc = "done" /\ C14_ReleaseFailed(f)) =>
      /\ "release" \in ReturnedError(f)
      /\ (Failures(f) # {} =>
            ErrorOf(f.log[CHOOSE k \in Failures(f) : \A j \in Failures(f) : k <= j])
              \in ReturnedError(f))
      /\ (Failures(f) = {} /\ f.err # "nil" => f.err \in ReturnedError(f))
      /\ ((f.op = "Run" /\ OkVersions(f.log, "Insert") = C13_Selected(f)) =>
            /\ ReturnedError(f) # {}
            /\ C13_Selected(f) \subseteq schema_migrations)

\* Sources 1, 2, 3 over an empty store: Run(3) inserts all three and its
\* Release fails.
C14_Witness ==
  \E p \in Procs :
    /\ frame[p].op = "Run" /\ frame[p].pc = "done" /\ frame[p].to = 3
    /\ C14_ReleaseFailed(frame[p])
    /\ frame[p].n = 3 /\ schema_migrations = {1, 2, 3}
    /\ ReturnedError(frame[p]) = {"release"}

\* ------------------------------------------------------------------- C15
\* The applied versions have no gap: they are the Source versions up to the
\* current version.
Gapless(S) == S = {v \in VersionSet(Sources) : v <= Current(S)}

\* No Store call and no migration function of the call failed.
Unfailing(f) ==
  /\ \A k \in 1..Len(f.log) : ~Failed(f.log[k])
  /\ f.err \notin {"apply", "revert"}

\* The lone caller returns from a Run that directly follows its successful
\* Run to the same target.
C15_SecondRun ==
  /\ frame[Caller].pc = "done" /\ frame[Caller].op = "Run"
  /\ returned # <<>>
  /\ returned[Len(returned)].op = "Run"
  /\ returned[Len(returned)].to = frame[Caller].to

\* C15: a Run that directly follows a successful Run to the same target runs
\* no migration function, makes no Insert, reports 0 and leaves the rows of
\* schema_migrations as the first Run left them; it succeeds and leaves the
\* lock free unless one of its own Store calls fails.
C15_RunIdempotent ==
  C15_SecondRun =>
    LET f == frame[Caller] IN
    /\ Count(f.log, "RunFunc") = 0
    /\ Count(f.log, "Insert") = 0
    /\ f.n = 0
    /\ schema_migrations = returned[Len(returned)].applied
    /\ (Unfailing(f) => Succeeded(f) /\ ~Locked)

\* Run(3) over Sources 1, 2, 3 directly after a successful Run(3).
C15_Witness ==
  /\ C15_SecondRun
  /\ VersionsOf(Sources) = <<1, 2, 3>>
  /\ frame[Caller].to = 3
  /\ returned[Len(returned)].applied = {1, 2, 3}
  /\ Succeeded(frame[Caller]) /\ frame[Caller].n = 0

\* ------------------------------------------------------------------- C16
\* The lone caller returns from the Run(t) of the series Run(t), Revert(r),
\* Run(t) with r below t, the first Run having brought a store without gaps
\* to version t, the Revert having succeeded, and no Store call or migration
\* function of the last Run having met an error of its own.
C16_RoundTripMade ==
  LET f == frame[Caller] IN
  /\ f.pc = "done" /\ f.op = "Run" /\ f.to \in Versions
  /\ Len(returned) = 2
  /\ returned[1].op = "Run" /\ returned[1].to = f.to
  /\ Current(returned[1].applied) = f.to
  /\ Gapless(returned[1].applied)
  /\ returned[2].op = "Revert" /\ returned[2].to < f.to
  /\ \A k \in 1..Len(f.log) : f.log[k].res # "err"
  /\ f.err \notin {"apply"}

\* C16: after Run(t), Revert(r), Run(t) the rows of schema_migrations are
\* those the first Run(t) left, for either value of HoldLockOnFailure.
C16_RoundTrip ==
  C16_RoundTripMade => schema_migrations = returned[1].applied

\* ------------------------------------------------------------------- C17
\* C17: over a database that held no version at first and well-formed
\* Sources, in every state, inside the walks too, the rows of
\* schema_migrations are the Source versions up to the current version.
C17_NoGaps ==
  WellFormed(VersionsOf(Sources)) => Gapless(schema_migrations)

\* A Revert in its loop: 3 is removed, 1 and 2 are left.
C17_Witness ==
  \E p \in Procs :
    /\ frame[p].op = "Revert" /\ frame[p].pc = "reversion"
    /\ VersionsOf(Sources) = <<1, 2, 3>>
    /\ frame[p].base = {1, 2, 3} /\ schema_migrations = {1, 2}

\* ------------------------------------------------------------------- C18
\* The call read the version of the store without an error.
VersionRead(f) ==
  /\ Count(f.log, "Version") > 0
  /\ \A k \in 1..Len(f.log) : f.log[k].op = "Version" => ~Failed(f.log[k])

\* The call is over with its one Release made, which freed the lock unless
\* it failed; before that it is about to make it.
ReleasesLock(f) ==
  \/ f.pc = "release" /\ Count(f.log, "Release") = 0
  \/ f.pc = "done" /\ Count(f.log, "Release") = 1 /\ (f.rlErr <=> Locked)

\* A Run to a target that is not the latest sentinel and is 0 or below the
\* current version it read.
C18_TargetBelow(f) ==
  /\ f.op = "Run" /\ VersionRead(f)
  /\ f.to # RunTargetLatest
  /\ (f.to < Current(f.base) \/ f.to = 0)

\* C18: a Run to a target below the current version, or to 0, ends without
\* an error of the walk, with n = 0, no migration function invoked, no
\* Insert and no Remove, the rows of schema_migrations unchanged and the
\* lock released.
C18_RunBelowIsNoOp ==
  \A p \in Procs :
    LET f == frame[p] IN
    C18_TargetBelow(f) =>
      /\ f.err = "nil" /\ f.n = 0
      /\ Count(f.log, "RunFunc") = 0 /\ Count(f.log, "RevertFunc") = 0
      /\ Count(f.log, "Insert") = 0 /\ Count(f.log, "Remove") = 0
      /\ schema_migrations = f.base
      /\ ReleasesLock(f)

\* Run(1) over Sources 1, 2, 3 and a store at version 3.
C18_Witness ==
  \E p \in Procs :
    /\ C18_TargetBelow(frame[p]) /\ frame[p].pc = "done"
    /\ VersionsOf(Sources) = <<1, 2, 3>>
    /\ frame[p].to = 1 /\ frame[p].base = {1, 2, 3}
    /\ Succeeded(frame[p]) /\ ~Locked

\* ------------------------------------------------------------------- C19
\* A Revert whose target was accepted and that read either no version at all
\* or a current version at or below its target.
C19_NothingAbove(f) ==
  /\ f.op = "Revert" /\ VersionRead(f)
  /\ f.base = {} \/ Current(f.base) <= f.to

\* C19: such a Revert ends without an error of the walk, with n = 0, no
\* revert function invoked, no Remove, the rows of schema_migrations
\* unchanged and the lock released, whatever HoldLockOnFailure.
C19_RevertAtOrAboveIsNoOp ==
  \A p \in Procs :
    LET f == frame[p] IN
    C19_NothingAbove(f) =>
      /\ f.err = "nil" /\ f.n = 0
      /\ Count(f.log, "RevertFunc") = 0 /\ Count(f.log, "Remove") = 0
      /\ Count(f.log, "RunFunc") = 0 /\ Count(f.log, "Insert") = 0
      /\ schema_migrations = f.base
      /\ ReleasesLock(f)

\* Revert(0) over an empty store with HoldLockOnFailure set.
C19_Witness ==
  \E p \in Procs :
    /\ C19_NothingAbove(frame[p]) /\ frame[p].pc = "done"
    /\ HoldLockOnFailure
    /\ frame[p].base = {} /\ frame[p].to = RevertTargetInitial
    /\ Succeeded(frame[p]) /\ ~Locked

\* ------------------------------------------------------------------- C20
\* The target is positive and no Source version, the Sources being valid.
C20_TargetOff(f) ==
  /\ f.op # "none"
  /\ WellFormed(VersionsOf(Sources))
  /\ f.to > 0 /\ f.to \notin VersionSet(Sources)

C20_Pending(f) == {v \in VersionSet(Sources) : Current(f.base) < v /\ v <= f.to}

\* C20: Run does not reject a positive target that is no Source version: it
\* goes on to the Store, and when its walk ends without an error it has run
\* and inserted, in ascending order, exactly the Source versions above the
\* current version and up to the target; it returns no error unless a
\* function or a Store call fails.  Revert rejects the same target.
C20_RunTakesTargetOffSources ==
  \A p \in Procs :
    LET f == frame[p] IN
    C20_TargetOff(f) =>
      IF f.op = "Revert" THEN f.err = "missing target version"
      ELSE /\ f.err # "missing target version"
           /\ f.log # <<>>
           /\ (WalkedWithoutError(p, "Run") =>
                 /\ VersionsLogged(f.log, "RunFunc") = Ascending(C20_Pending(f))
                 /\ VersionsLogged(f.log, "Insert") = Ascending(C20_Pending(f))
                 /\ schema_migrations = f.base \cup C20_Pending(f))
           /\ (f.pc = "done" /\ Unfailing(f) =>
                 Succeeded(f) /\ f.n = Cardinality(C20_Pending(f)))

\* Run(2) over Sources 1, 3 and an empty store applies 1 alone.
C20_Witness ==
  \E p \in Procs :
    /\ C20_TargetOff(frame[p]) /\ frame[p].op = "Run" /\ frame[p].pc = "done"
    /\ VersionsOf(Sources) = <<1, 3>>
    /\ frame[p].to = 2 /\ frame[p].base = {}
    /\ Succeeded(frame[p]) /\ frame[p].n = 1
    /\ schema_migrations = {1}

\* ------------------------------------------------------------------- C21
\* The latest direct call on the Store was of method op.
Called(op) == called # <<>> /\ called[Len(called)].op = op

LastCall == called[Len(called)]

\* C21: Remove of a version that is not recorded returns an error and leaves
\* the rows as they were; Remove of a recorded version, when it succeeds,
\* removes that version alone.
C21_RemoveOfUnrecordedFails ==
  Called("Remove") =>
    /\ (LastCall.v \notin LastCall.rows =>
          LastCall.res # "ok" /\ schema_migrations = LastCall.rows)
    /\ ((LastCall.v \in LastCall.rows /\ LastCall.res = "ok") =>
          schema_migrations = LastCall.rows \ {LastCall.v})

\* ------------------------------------------------------------------- C22
\* C22: Insert of a recorded version returns an error and leaves the rows as
\* they were; a successful Insert was of a version not yet recorded and adds
\* that version alone; a failed one changes nothing; over an initialised
\* store the Insert of a version not yet recorded can succeed.
C22_InsertOfRecordedFails ==
  /\ Called("Insert") =>
       /\ (LastCall.v \in LastCall.rows =>
             LastCall.res # "ok" /\ schema_migrations = LastCall.rows)
       /\ (LastCall.res = "ok" =>
             /\ LastCall.v \notin LastCall.rows
             /\ schema_migrations = LastCall.rows \cup {LastCall.v})
       /\ (LastCall.res # "ok" => schema_migrations = LastCall.rows)
       /\ tables = LastCall.tables /\ schema_lock = LastCall.lock
  /\ \A v \in Versions \ schema_migrations :
       "schema_migrations" \in tables =>
         \E o \in Sqlite3Store_Insert(tables, schema_migrations, v) : o.res = "ok"

\* Insert(2) over the rows 1, 2.
C22_Witness ==
  /\ Called("Insert")
  /\ LastCall.v = 2 /\ LastCall.rows = {1, 2}
  /\ LastCall.res # "ok"
  /\ schema_migrations = {1, 2}

C24_LockProtocol ==
  /\ Called("Lock") =>
       /\ (LastCall.res = "ok" => 1 \notin LastCall.lock /\ schema_lock = {1})
       /\ (1 \in LastCall.lock =>
             LastCall.res \in {"ErrLocked", "err"} /\ schema_lock = LastCall.lock)
       /\ (LastCall.res = "ErrLocked" => 1 \in LastCall.lock)
       /\ (LastCall.res # "ok" => schema_lock = LastCall.lock)
       /\ schema_migrations = LastCall.rows /\ tables = LastCall.tables
       /\ ((Len(called) = 2 /\ called[1].op = "Release" /\ called[1].res = "ok") =>
             LastCall.res \in {"ok", "err"})
  /\ Called("Release") =>
       /\ (LastCall.res = "ok" => schema_lock = {})
       /\ (LastCall.res # "ok" => schema_lock = LastCall.lock)
       /\ schema_migrations = LastCall.rows /\ tables = LastCall.tables
  /\ (~Locked /\ "schema_lock" \in tables) =>
       \E o \in Sqlite3Store_Lock(tables, schema_lock) : o.res = "ok"

\* Release of a held lock, then Lock with success.
C24_Witness ==
  /\ Called("Lock") /\ Len(called) = 2
  /\ called[1].op = "Release" /\ called[1].res = "ok" /\ 1 \in called[1].lock
  /\ LastCall.res = "ok" /\ Locked

\* ------------------------------------------------------------------- C25
\* C25: Init never changes the rows of schema_migrations or of schema_lock;
\* after a successful Init both tables exist, a failed one changes nothing;
\* and Init can succeed over every database, with none, one or both of the
\* tables, so also directly after an Init.
C25_InitIdempotent ==
  /\ Called("Init") =>
       /\ schema_migrations = LastCall.rows /\ schema_lock = LastCall.lock
       /\ (LastCall.res = "ok" => tables = TableNames)
       /\ (LastCall.res # "ok" => tables = LastCall.tables)
  /\ \E o \in Sqlite3Store_Init(tables) : o.res = "ok"

\* Init twice with success over a store with a row and the lock held.
C25_Witness ==
  /\ Called("Init") /\ Len(called) = 2
  /\ called[1].op = "Init" /\ called[1].res = "ok"
  /\ LastCall.res = "ok"
  /\ LastCall.rows = {2} /\ 1 \in LastCall.lock
  /\ schema_migrations = {2} /\ Locked

\* ------------------------------------------------------------------- C26
\* The Source migration of version v.
SourceOf(v) == Sources[CHOOSE j \in 1..Len(Sources) : Sources[j].Version = v]

\* The Run ended at a selected migration whose RunFunc is unset.
C26_NoRunFunc(f) ==
  /\ f.op = "Run" /\ f.err = "apply"
  /\ f.walk[f.i].RunFunc = "nil"

\* The Revert ended at a migration whose RevertFunc is unset.
C26_NoRevertFunc(f) ==
  /\ f.op = "Revert" /\ f.err = "revert"
  /\ Sources[f.i].RevertFunc = "nil"

\* C26: Migration.Run / Migration.Revert give an error and invoke nothing
\* when the function is unset, and else the result of the function; no
\* function of a migration that has none is ever invoked.  A Run that ends
\* on a migration without RunFunc has run and inserted the selected
\* migrations before it and has neither run nor inserted that one; a Revert
\* that ends on a migration without RevertFunc has reverted and removed the
\* versions above it, and that one is still recorded.
C26_MissingFunctionAtItsTurn ==
  /\ \A j \in 1..Len(Sources) :
       /\ Migration_Run(Sources[j]) =
            (IF Sources[j].RunFunc = "nil" THEN {"nofunc"} ELSE {"ok", "err"})
       /\ Migration_Revert(Sources[j]) =
            (IF Sources[j].RevertFunc = "nil" THEN {"nofunc"} ELSE {"ok", "err"})
  /\ \A p \in Procs :
       LET f == frame[p] IN
       /\ \A k \in 1..Len(f.log) :
            /\ f.log[k].op = "RunFunc" => SourceOf(f.log[k].v).RunFunc # "nil"
            /\ f.log[k].op = "RevertFunc" => SourceOf(f.log[k].v).RevertFunc # "nil"
       /\ C26_NoRunFunc(f) =>
            LET v == f.walk[f.i].Version
                earlier == {f.walk[j].Version : j \in 1..(f.i - 1)} IN
            /\ f.pc \in {"release", "done"}
            /\ ~Attempted(f.log, "RunFunc", v) /\ ~Attempted(f.log, "Insert", v)
            /\ v \notin schema_migrations
            /\ OkVersions(f.log, "RunFunc") = earlier
            /\ OkVersions(f.log, "Insert") = earlier
            /\ earlier \subseteq schema_migrations
            /\ f.n = Cardinality(earlier)
       /\ C26_NoRevertFunc(f) =>
            LET v == Sources[f.i].Version
                above == {u \in f.base : u > v} IN
            /\ f.pc \in {"release", "done"}
            /\ ~Attempted(f.log, "RevertFunc", v) /\ ~Attempted(f.log, "Remove", v)
            /\ v \in schema_migrations
            /\ OkVersions(f.log, "RevertFunc") = above
            /\ OkVersions(f.log, "Remove") = above
            /\ schema_migrations = f.base \ above
            /\ f.n = Cardinality(above)

\* Sources 1, 2, 3 with the RunFunc of 2 unset: Run(3) over an empty store
\* records 1 and ends on 2.
C26_Witness ==
  \E p \in Procs :
    /\ C26_NoRunFunc(frame[p]) /\ frame[p].pc = "done"
    /\ VersionsOf(Sources) = <<1, 2, 3>> /\ Sources[2].RunFunc = "nil"
    /\ frame[p].to = 3 /\ frame[p].base = {}
    /\ frame[p].n = 1 /\ schema_migrations = {1}

\* ------------------------------------------------------------------- C27
\* The lock is held and no running invocation holds it.
Abandoned == Locked /\ \A p \in Procs : ~InCritical(p)

\* The call failed in its walk and HoldLockOnFailure is set.
C27_HeldOnFailure(f) ==
  /\ HoldLockOnFailure
  /\ f.pc = "done"
  /\ f.err \in {"apply", "insert", "revert", "remove"}

\* The call is over without having acquired the lock: Lock gave ErrLocked,
\* or the call ended before Lock or on the error of the Lock statement.
C27_Rejected(f) ==
  /\ f.pc = "done"
  /\ Count(f.log, "Version") = 0
  /\ f.err \in {"ErrLocked", "lock", "init", "invalid sources", "missing target version"}
  /\ (LockFailed(f) /\ f.err # "lock") => f.err = "ErrLocked"

\* C27: a call that fails in its walk under HoldLockOnFailure returns with
\* the lock abandoned.  While the lock is abandoned every call of Run or
\* Revert is rejected, the rows of schema_migrations do not change, and the
\* lock stays abandoned until a step that only deletes the lock row, a
\* Release from outside; with the lock free a Lock can succeed again.
C27_HeldUntilManualRelease ==
  /\ [](\A p \in Procs : C27_HeldOnFailure(frame[p]) => Abandoned)
  /\ []((~Locked /\ "schema_lock" \in tables) =>
          \E o \in Sqlite3Store_Lock(tables, schema_lock) : o.res = "ok")
  /\ [][Abandoned =>
          /\ schema_migrations' = schema_migrations
          /\ \A p \in Procs :
               (frame[p].pc = "idle" /\ frame'[p].pc # "idle") => C27_Rejected(frame'[p])
          /\ (~Abandoned' => schema_lock' = {} /\ frame' = frame)]_vars

\* A call rejected with ErrLocked over a lock that no invocation holds, with
\* HoldLockOnFailure set.
C27_Witness ==
  \E p \in Procs :
    /\ HoldLockOnFailure /\ Abandoned
    /\ VersionsOf(Sources) = <<1, 2, 3>>
    /\ frame[p].pc = "done" /\ frame[p].err = "ErrLocked"
    /\ schema_migrations = {1}

\* ------------------------------------------------------------------- C28
\* The Store methods a call made, in order.
StoreCalls(log) ==
  LET made == SelectSeq(log, LAMBDA e : e.op \notin {"RunFunc", "RevertFunc"})
  IN [k \in 1..Len(made) |-> made[k].op]

Repeat(s, k) == [j \in 1..(k * Len(s)) |-> s[((j - 1) % Len(s)) + 1]]

\* C28: a successful Run that reports k makes the Store calls Init, Lock,
\* Version, k times Insert, Release; a successful Revert that reports k makes
\* Init, Lock, Version, k times Remove then Version, Release.
C28_StoreCallPattern ==
  \A p \in Procs :
    LET f == frame[p] IN
    (f.pc = "done" /\ Succeeded(f)) =>
      StoreCalls(f.log) =
        IF f.op = "Run"
        THEN <<"Init", "Lock", "Version">> \o Repeat(<<"Insert">>, f.n) \o <<"Release">>
        ELSE <<"Init", "Lock", "Version">> \o Repeat(<<"Remove", "Version">>, f.n)
               \o <<"Release">>

\* ------------------------------------------------------------------- C29
C29_StrictlyIncreasing(vl) ==
  /\ \A k \in 1..Len(vl) : vl[k] > 0
  /\ \A j, k \in 1..Len(vl) : j < k => vl[j] < vl[k]

\* The call got past check().
C29_Passed(f) == f.log # <<>> \/ f.err = "missing target version"

\* C29: check() accepts Sources exactly when the versions are positive and
\* strictly increasing in list order, the empty list included, and a call of
\* Run or of Revert ends on the validation error exactly when they are not.
C29_CheckAcceptsStrictlyIncreasing ==
  /\ (check(Sources) = "nil") <=> C29_StrictlyIncreasing(VersionsOf(Sources))
  /\ \A p \in Procs :
       frame[p].op # "none" =>
         /\ (frame[p].err = "invalid sources")
              <=> ~C29_StrictlyIncreasing(VersionsOf(Sources))
         /\ C29_Passed(frame[p]) <=> C29_StrictlyIncreasing(VersionsOf(Sources))

\* A Run and a Revert over the empty Source list both got past check().
C29_Witness ==
  \E p, q \in Procs :
    /\ Sources = <<>>
    /\ frame[p].op = "Run" /\ frame[q].op = "Revert"
    /\ C29_Passed(frame[p]) /\ C29_Passed(frame[q])

\* ------------------------------------------------------------------- C30
\* The entries of the log after position k are of the release.
OnlyReleaseAfter(log, k) ==
  \A j \in (k + 1)..Len(log) : log[j].op = "Release"

\* C30: when in a Revert the Version read after a Remove fails, or a Remove
\* itself fails, the walk is over with that error and nothing but the
\* release follows; with j the number of successful Removes so far, the call
\* reports j, the rows are those of the start less these j versions, and j
\* revert functions were invoked before a failed re-query, j + 1 before a
\* failed Remove, whose version is still recorded.
C30_RevertStoreFailure ==
  \A p \in Procs :
    LET f == frame[p]
        removed == OkVersions(f.log, "Remove") IN
    f.op = "Revert" =>
      \A k \in 1..Len(f.log) :
        /\ (/\ f.log[k].op = "Version" /\ f.log[k].res = "err"
            /\ k > 1 /\ f.log[k - 1].op = "Remove") =>
             /\ f.pc \in {"release", "done"} /\ f.err = "version"
             /\ OnlyReleaseAfter(f.log, k)
             /\ f.n = Cardinality(removed)
             /\ Count(f.log, "RevertFunc") = f.n
             /\ Count(f.log, "Remove") = f.n
             /\ schema_migrations = f.base \ removed
             /\ Cardinality(f.base) - Cardinality(schema_migrations) = f.n
        /\ (f.log[k].op = "Remove" /\ f.log[k].res # "ok") =>
             /\ f.pc \in {"release", "done"} /\ f.err = "remove"
             /\ OnlyReleaseAfter(f.log, k)
             /\ f.n = Cardinality(removed)
             /\ Count(f.log, "RevertFunc") = f.n + 1
             /\ f.log[k].v \in schema_migrations
             /\ schema_migrations = f.base \ removed
             /\ Cardinality(f.base) - Cardinality(schema_migrations) = f.n

\* Revert(0) over the rows 1, 2, 3: 3 is removed and the re-query fails.
C30_Witness ==
  \E p \in Procs :
    /\ frame[p].op = "Revert" /\ frame[p].pc = "done"
    /\ frame[p].to = RevertTargetInitial
    /\ frame[p].err = "version" /\ frame[p].n = 1
    /\ frame[p].base = {1, 2, 3} /\ schema_migrations = {1, 2}

\* ------------------------------------------------------------------- C31
\* The call failed on its first read of the version, before the walk.
C31_FailedBeforeWalk(f) ==
  f.err = "version" /\ Count(f.log, "Version") = 1

\* The call failed inside the walk: in a migration function, an Insert, a
\* Remove, the search of the current version or a re-query.
C31_FailedInsideWalk(f) ==
  \/ f.err \in {"apply", "insert", "revert", "remove", "missing remote version"}
  \/ f.err = "version" /\ Count(f.log, "Version") > 1

\* The call took the lock and returns without having called Release.
C31_LeftHeld(f) ==
  /\ f.pc = "done"
  /\ \E k \in 1..Len(f.log) : f.log[k] = LogEntry("Lock", 0, "ok")
  /\ Count(f.log, "Release") = 0

\* A failure before the walk calls Release, and the lock is free at the
\* return unless that Release failed.
C31_FailureBeforeWalkReleases ==
  \A p \in Procs :
    (frame[p].pc = "done" /\ C31_FailedBeforeWalk(frame[p])) =>
      /\ Count(frame[p].log, "Release") = 1
      /\ (frame[p].rlErr <=> Locked)

\* C31: with HoldLockOnFailure, a call whose first Version fails with another
\* error than ErrInitialVersion still calls Release before it returns, and a
\* call returns with the lock left held only when it failed inside the walk.
C31_HeldOnlyForWalkFailures ==
  HoldLockOnFailure =>
    /\ C31_FailureBeforeWalkReleases
    /\ \A p \in Procs : C31_LeftHeld(frame[p]) => C31_FailedInsideWalk(frame[p])

\* ------------------------------------------------------------------- C32
\* The versions a Revert read without an error, in the order it read them.
C32_VersionsRead(log) ==
  LET reads == SelectSeq(log, LAMBDA e : e.op = "Version" /\ e.res = "ok")
  IN [k \in 1..Len(reads) |-> reads[k].v]

\* The turns of the loop of a Revert are bounded by the applied versions it
\* found: each read of the current version is below the one before, every
\* version it reverts was applied and is reverted once, and it reverts and
\* removes no more versions than were applied.
C32_Bounded(f) ==
  LET read == C32_VersionsRead(f.log)
      reverted == VersionsLogged(f.log, "RevertFunc") IN
  /\ \A j, k \in 1..Len(read) : j < k => read[j] > read[k]
  /\ \A j, k \in 1..Len(reverted) : j < k => reverted[j] > reverted[k]
  /\ \A k \in 1..Len(reverted) : reverted[k] \in f.base
  /\ Len(reverted) <= Cardinality(f.base)
  /\ Count(f.log, "Remove") <= Cardinality(f.base)
  /\ f.n <= Cardinality(f.base)

C32_Reverting == frame[Caller].op = "Revert" /\ frame[Caller].pc # "idle"

\* C32: a Revert that was called returns, for every target and every set of
\* applied versions, and until then its loop takes at most as many turns as
\* there are applied versions, the current version going down with every turn.
C32_RevertTerminates ==
  /\ [](frame[Caller].op = "Revert" => C32_Bounded(frame[Caller]))
  /\ (C32_Reverting ~> frame[Caller].pc = "done")

\* Revert(0) over the rows 1, 2, 3 returns after three turns of its loop.
C32_Witness ==
  /\ frame[Caller].op = "Revert" /\ frame[Caller].pc = "done"
  /\ frame[Caller].to = RevertTargetInitial
  /\ frame[Caller].base = {1, 2, 3}
  /\ VersionsLogged(frame[Caller].log, "RevertFunc") = <<3, 2, 1>>
  /\ frame[Caller].n = 3 /\ schema_migrations = {}

\* ------------------------------------------------------------------- C33
\* The calls a Run makes are none of Revert's, and the other way round.
C33_Calls ==
  \A p \in Procs :
    /\ frame[p].op = "Run" =>
         Count(frame[p].log, "RevertFunc") = 0 /\ Count(frame[p].log, "Remove") = 0
    /\ frame[p].op = "Revert" =>
         Count(frame[p].log, "RunFunc") = 0 /\ Count(frame[p].log, "Insert") = 0

\* The operation of the call of p that takes the step, "none" when the step
\* is not one of a call of p.
C33_Stepping(p) ==
  IF frame'[p] = frame[p] THEN "none"
  ELSE IF frame[p].op # "none" THEN frame[p].op ELSE frame'[p].op

C33_Step ==
  /\ Sources' = Sources
  /\ HoldLockOnFailure' = HoldLockOnFailure
  /\ \A p \in Procs :
       /\ C33_Stepping(p) = "Run" =>
            /\ schema_migrations \subseteq schema_migrations'
            /\ Current(schema_migrations') >= Current(schema_migrations)
       /\ C33_Stepping(p) = "Revert" =>
            /\ schema_migrations' \subseteq schema_migrations
            /\ Current(schema_migrations') <= Current(schema_migrations)

\* C33: a Run calls no revert function and no Remove, and no step of it takes
\* a version away or lowers the current version; a Revert calls no forward
\* function and no Insert, and no step of it adds a version or raises the
\* current version; no step of either changes Sources or HoldLockOnFailure.
C33_DirectionFrame == [][C33_Step /\ C33_Calls']_vars

\* A Revert to 2 over the rows 1, 2, 3, of which a Run recorded at least two,
\* has removed 3.
C33_Witness ==
  \E p \in Procs :
    /\ frame[p].op = "Revert" /\ frame[p].pc = "release"
    /\ frame[p].to = 2 /\ frame[p].base = {1, 2, 3}
    /\ VersionsLogged(frame[p].log, "Remove") = <<3>>
    /\ schema_migrations = {1, 2}

\* ------------------------------------------------------------------- C34
\* The call ended on the failed Insert / Remove of version v, after the
\* function of v had succeeded in this call.
C34_RecordFailed(f, fn, rec, v) ==
  /\ Len(f.log) >= 2
  /\ \E k \in 2..Len(f.log) :
       /\ f.log[k].op = rec /\ f.log[k].v = v /\ f.log[k].res # "ok"
       /\ f.log[k - 1] = LogEntry(fn, v, "ok")
       /\ OnlyReleaseAfter(f.log, k)

\* The call's first read of the version did not fail.
C34_Began(f) ==
  \E k \in 1..Len(f.log) :
    /\ f.log[k].op = "Version" /\ f.log[k].res # "err"
    /\ \A j \in 1..(k - 1) : f.log[j].op # "Version"

\* The first migration function the call invokes is the one of version v: it
\* has invoked it, or it is about to.
C34_InvokesFirst(f, fn, at, v) ==
  LET invoked == VersionsLogged(f.log, fn) IN
  IF invoked # <<>> THEN invoked[1] = v
  ELSE /\ f.pc = at
       /\ v = (IF fn = "RunFunc" THEN f.walk[f.i].Version ELSE Sources[f.i].Version)
       /\ SourceOf(v)[fn] = "fn"

\* C34: a Run that ends on the failed Insert of a version whose function
\* succeeded leaves that version unrecorded, and the Run to the same target
\* that the caller makes next invokes that function again, once it has read
\* the version; a Revert that ends on the failed Remove of a version whose
\* revert function succeeded leaves it recorded, and the next Revert to the
\* same target invokes that revert function again.
C34_ActionRepeatedAfterFailedRecord ==
  LET f == frame[Caller] IN
  /\ (f.pc = "done" /\ f.err = "insert") =>
       /\ C34_RecordFailed(f, "RunFunc", "Insert", Failure(f)[1].v)
       /\ Failure(f)[1].v \notin schema_migrations
  /\ (f.pc = "done" /\ f.err = "remove") =>
       /\ C34_RecordFailed(f, "RevertFunc", "Remove", Failure(f)[1].v)
       /\ Failure(f)[1].v \in schema_migrations
  /\ (/\ failed # <<>> /\ f.op = failed[1].op /\ f.to = failed[1].to
      /\ C34_Began(f)) =>
       IF f.op = "Run"
       THEN C34_InvokesFirst(f, "RunFunc", "apply", failed[1].v)
       ELSE C34_InvokesFirst(f, "RevertFunc", "revert", failed[1].v)

\* Run(3) over Sources 1, 2, 3: the Insert of 2 failed, and the Run(3) made
\* next ran the function of 2 a second time and recorded 2 and 3.
C34_Witness ==
  LET f == frame[Caller] IN
  /\ VersionsOf(Sources) = <<1, 2, 3>>
  /\ failed = <<[op |-> "Run", to |-> 3, v |-> 2]>>
  /\ f.op = "Run" /\ f.to = 3 /\ f.pc = "done" /\ Succeeded(f)
  /\ VersionsLogged(f.log, "RunFunc") = <<2, 3>>
  /\ schema_migrations = {1, 2, 3}

\* Revert(0) over the rows 1, 2: the Remove of 2 failed, and the Revert(0)
\* made next ran the revert function of 2 a second time.
C34_WitnessRevert ==
  LET f == frame[Caller] IN
  /\ failed = <<[op |-> "Revert", to |-> 0, v |-> 2]>>
  /\ f.op = "Revert" /\ f.to = 0 /\ f.pc = "remove"
  /\ VersionsLogged(f.log, "RevertFunc") = <<2>>
  /\ schema_migrations = {1, 2}

\* ------------------------------------------------------------------- C35
\* The invocations of fn so far, in order.
Invocations == SelectSeq(events, LAMBDA e : e.e = "fn")

\* C35: retry invokes fn at most MaxTries times and not again after an
\* invocation that returned nil; it returns a nil error only when an
\* invocation returned nil; and when MaxTries invocations have all failed it
\* returns the error of the last of them.
C35_RetryInvocations ==
  LET inv == Invocations IN
  /\ Len(inv) <= options.MaxTries
  /\ \A k \in 1..(Len(inv) - 1) : inv[k].res # NilErr
  /\ (loop.pc = "done" /\ loop.ret = NilErr) =>
       \E k \in 1..Len(inv) : inv[k].res = NilErr
  /\ (/\ loop.pc = "done" /\ Len(inv) = options.MaxTries
      /\ \A k \in 1..Len(inv) : inv[k].res # NilErr) =>
       Len(inv) > 0 /\ loop.ret = inv[Len(inv)].res

\* The same for the options with MaxTries of 1 or more.
C35_WithPositiveMaxTries == options.MaxTries >= 1 => C35_RetryInvocations

\* ------------------------------------------------------------------- C36
\* The context was cancelled after an attempt that failed and was not the
\* last one allowed, before the delay (at the test of ctx.Err() or on the way
\* to the select) or during it.
C36_CancelledAfterFailure(c) ==
  /\ events[c].e = "cancel"
  /\ events[c].at \in {"check", "select", "parked"}

\* C36: when the context is cancelled after a failed attempt that was not
\* the last one allowed, before or during the delay, then retry invokes fn
\* no more and returns the error of the context.
C36_CancellationStopsRetry ==
  \A c \in 1..Len(events) :
    C36_CancelledAfterFailure(c) =>
      /\ \A j \in (c + 1)..Len(events) : events[j].e # "fn"
      /\ (loop.pc = "done" => loop.ret = CtxErr)

\* The same for a delay that takes time, where the timer is not ready when
\* the select is entered.
C36_WithPositiveDelay == options.Delay > 0 => C36_CancellationStopsRetry

====
